---- MODULE Spec2Model ----
(***************************************************************************)
(* A model of the libui/iui binding layer: the Window wrapper              *)
(* (libui/src/controls/window.rs) with its thread-local registry WINDOWS,  *)
(* its boxed-closure callbacks and its dialogs, and the text-entry family  *)
(* (iui/src/controls/textentry.rs).  A Rust string is a sequence of        *)
(* characters (code points), a native string a sequence of bytes; as_bytes *)
(* and to_string_lossy convert between them.  The native toolkit is        *)
(* modelled as a store: what a setter is given is what the matching getter *)
(* returns.                                                                *)
(***************************************************************************)
EXTENDS Integers, Sequences, FiniteSets, TLC

\* ------------------------------------------------------------------ bounds
MaxWindows == 2
MaxBoxes == 3
MaxTextLen == 2
MaxDialogs == 2

\* ------------------------------------------------------- bytes and strings
NUL == 0
LF == 10
CR == 13
ReplacementChar == 65533
\* Sample characters and bytes: the letter a, a slash, e with acute accent (two
\* bytes in UTF-8), the euro sign (three bytes), and a byte that no UTF-8 has.
Sample == [letter |-> 97, slash |-> 47, eacute |-> 233, euro |-> 8364, invalid |-> 255]
LetterA == Sample.letter
Slash == Sample.slash
EAcute == Sample.eacute
Euro == Sample.euro
InvalidByte == Sample.invalid

RECURSIVE StringsUpTo(_, _)
StringsUpTo(S, n) ==
    IF n = 0 THEN {<<>>}
    ELSE LET shorter == StringsUpTo(S, n - 1)
         IN shorter \cup {Append(s, b) : s \in {t \in shorter : Len(t) = n - 1}, b \in S}

Range(s) == {s[i] : i \in 1..Len(s)}

HasNul(s) == NUL \in Range(s)

\* char::encode_utf8: the UTF-8 bytes of one character.
encode_utf8(c) ==
    IF c < 128 THEN <<c>>
    ELSE IF c < 2048 THEN <<192 + (c \div 64), 128 + (c % 64)>>
    ELSE IF c < 65536
         THEN <<224 + (c \div 4096), 128 + ((c \div 64) % 64), 128 + (c % 64)>>
         ELSE <<240 + (c \div 262144), 128 + ((c \div 4096) % 64),
                128 + ((c \div 64) % 64), 128 + (c % 64)>>

\* str::as_bytes: the UTF-8 bytes of a string.
RECURSIVE as_bytes(_)
as_bytes(s) == IF s = <<>> THEN <<>> ELSE encode_utf8(Head(s)) \o as_bytes(Tail(s))

\* CString::new(bytes): Err(NulError) when the bytes hold a NUL, Ok otherwise.
CString_new(s) == [ok |-> ~HasNul(s), bytes |-> s]

\* Whether s has a byte at i and it lies in lo..hi.
ByteIn(s, i, lo, hi) == i <= Len(s) /\ s[i] >= lo /\ s[i] <= hi

\* The first chunk of a non-empty byte string as the lossy decoder takes it: n
\* bytes that are the UTF-8 of the character c, or the longest prefix (n bytes)
\* that could begin a UTF-8 sequence but does not, which becomes one U+FFFD.
DecodeFirst(s) ==
    LET b == s[1]
        bad(n) == [n |-> n, c |-> ReplacementChar]
    IN IF b < 128 THEN [n |-> 1, c |-> b]
       ELSE IF b >= 194 /\ b <= 223
       THEN IF ByteIn(s, 2, 128, 191)
            THEN [n |-> 2, c |-> (b - 192) * 64 + (s[2] - 128)]
            ELSE bad(1)
       ELSE IF b >= 224 /\ b <= 239
       THEN IF ~ByteIn(s, 2, IF b = 224 THEN 160 ELSE 128, IF b = 237 THEN 159 ELSE 191)
            THEN bad(1)
            ELSE IF ~ByteIn(s, 3, 128, 191) THEN bad(2)
            ELSE [n |-> 3, c |-> (b - 224) * 4096 + (s[2] - 128) * 64 + (s[3] - 128)]
       ELSE IF b >= 240 /\ b <= 244
       THEN IF ~ByteIn(s, 2, IF b = 240 THEN 144 ELSE 128, IF b = 244 THEN 143 ELSE 191)
            THEN bad(1)
            ELSE IF ~ByteIn(s, 3, 128, 191) THEN bad(2)
            ELSE IF ~ByteIn(s, 4, 128, 191) THEN bad(3)
            ELSE [n |-> 4, c |-> (b - 240) * 262144 + (s[2] - 128) * 4096
                                 + (s[3] - 128) * 64 + (s[4] - 128)]
       ELSE bad(1)

\* CStr::from_ptr(p).to_string_lossy(): the bytes decoded as UTF-8, each maximal
\* invalid sequence replaced by one U+FFFD.
RECURSIVE to_string_lossy(_)
to_string_lossy(s) ==
    IF s = <<>> THEN <<>>
    ELSE LET d == DecodeFirst(s)
         IN <<d.c>> \o to_string_lossy(SubSeq(s, d.n + 1, Len(s)))

\* ---------------------------------------------------------------- state
VARIABLES
    WINDOWS,            \* the thread-local registry: a sequence of window handles
    borrowed,           \* whether the registry's RefCell is mutably borrowed
    created,            \* native windows created so far: handles 1..created
    destroyCount,       \* handle -> how many times uiControlDestroy got it
    title,              \* handle -> the native title
    margined,           \* handle -> the native margined flag
    onClosing,          \* handle -> the context pointer of the closing callback (0: none)
    onPositionChanged,  \* handle -> the context pointer of the position callback (0: none)
    heap,               \* the closure boxes ever allocated, by address 1..Len(heap)
    freed,              \* the addresses of the boxes that were freed
    aborted,            \* whether a panic inside a callback has ended the process
    drainedUpTo,        \* history: the value of created when the registry was last drained
    returned,           \* history: handle -> whether Window::new returned the window
    userClosing,        \* history: handle -> the box of the user's last on_closing (0: none)
    registrations,      \* history: the number of callbacks handed to the toolkit
    kind,               \* which of the four text-entry kinds the entry is
    platform,           \* "windows" or "unix": the build's cfg
    text,               \* the entry's native text buffer
    onChanged,          \* the context pointer of the entry's changed callback (0: none)
    cstrings,           \* native strings returned by dialogs: [bytes, frees] by address
    out                 \* what the last operation did and returned

vars == <<WINDOWS, borrowed, created, destroyCount, title, margined, onClosing,
          onPositionChanged, heap, freed, aborted, drainedUpTo, returned, userClosing,
          registrations, kind, platform, text, onChanged, cstrings, out>>

entryVars == <<kind, platform>>

Handles == 1..MaxWindows
EntryKinds == {"Entry", "PasswordEntry", "SearchEntry", "MultilineEntry"}
\* The titles and descriptions the caller passes: two without a NUL, one that is
\* a lone NUL, one with a NUL between two letters.
Titles == {<<>>, <<LetterA>>, <<NUL>>, <<LetterA, NUL, LetterA>>}
Descriptions == {<<LetterA>>, <<LetterA, NUL>>}
\* What set_value and append are given: a Rust &str; no NUL.
InputChars == {LF, CR, LetterA, EAcute}
Inputs == StringsUpTo(InputChars, MaxTextLen)
\* What the toolkit's buffer may hold after the user edits it: line breaks of
\* both forms, a byte no UTF-8 has, e-acute and the euro sign whole and cut short.
Texts == {<<>>, <<LF>>, <<CR>>, <<CR, LF>>, <<LetterA, CR, LF>>, <<LF, CR>>,
          <<InvalidByte>>, <<LetterA, InvalidByte>>,
          encode_utf8(EAcute), SubSeq(encode_utf8(EAcute), 1, 1),
          encode_utf8(Euro), SubSeq(encode_utf8(Euro), 1, 2),
          encode_utf8(Euro) \o <<CR, LF>>}
\* What a file dialog may answer: a null pointer, or a new native string.
Paths == {<<>>, <<Slash>>, <<Slash, LetterA>>, <<Slash, InvalidByte>>,
          <<Slash>> \o encode_utf8(EAcute), <<Slash>> \o encode_utf8(Euro),
          <<Slash>> \o SubSeq(encode_utf8(Euro), 1, 2) \o <<LetterA>>}
DialogAnswers == {[null |-> TRUE, bytes |-> <<>>]} \cup {[null |-> FALSE, bytes |-> p] : p \in Paths}
None == [some |-> FALSE, path |-> <<>>]
Some(p) == [some |-> TRUE, path |-> p]

\* What the toolkit and the build do that this repository does not decide:
\* whether uiControlDestroy calls the window's closing callback while it destroys
\* (reentrant), and what a panic that leaves a trampoline does: the unwinding is
\* stopped at the foreign frame and the toolkit goes on ("resume"), or the
\* process ends ("abort").
Environments == [reentrant : BOOLEAN, onPanic : {"resume", "abort"}]
Quiet == [reentrant |-> FALSE, onPanic |-> "abort"]

\* The result record of an operation that has not run yet.
NoOut == [op |-> "none", win |-> 0, panic |-> "none", cbPanic |-> "none", nul |-> FALSE,
          native |-> <<>>, ran |-> <<>>, quit |-> FALSE, destroyed |-> <<>>,
          reentered |-> FALSE, ret |-> 0, arg |-> <<>>,
          given |-> [null |-> TRUE, bytes |-> <<>>], result |-> None,
          ptr |-> 0, uaf |-> FALSE]

\* The wrapper's state as one value, threaded through the operations; the fields
\* from env on are the running operation's: its environment and what it has done
\* so far.
W == [WINDOWS |-> WINDOWS, borrowed |-> borrowed, created |-> created,
      destroyCount |-> destroyCount, title |-> title, margined |-> margined,
      onClosing |-> onClosing, onPositionChanged |-> onPositionChanged,
      onChanged |-> onChanged, heap |-> heap, freed |-> freed, aborted |-> aborted,
      text |-> text, cstrings |-> cstrings,
      drainedUpTo |-> drainedUpTo, returned |-> returned, registrations |-> registrations,
      env |-> Quiet, overflow |-> FALSE,
      panic |-> "none", cbPanic |-> "none", native |-> <<>>, ran |-> <<>>,
      quit |-> FALSE, destroyed |-> <<>>, reentered |-> FALSE, arg |-> <<>>,
      uaf |-> FALSE]

\* The state an operation starts in under the environment e.
Under(e) == [W EXCEPT !.env = e]

alive(st, h) == h <= st.created /\ st.destroyCount[h] = 0

\* ---------------------------------------------------- callback boxes
RECURSIVE new(_, _), destroy_all_windows(_)

\* The closure Window::new registers: move |_| { ui.quit(); }
QuitClosure == [owner |-> "Window::new", body |-> "quit"]
\* A closure of the caller's, any FnMut: its body is the caller's code, which may
\* call the public API.  The bodies taken here: one that calls nothing of the
\* library, one that quits the application, one that calls Window::new, one that
\* calls Window::destroy_all_windows.
UserBodies == {"nothing", "quit", "new", "destroy_all_windows"}
UserClosure(b) == [owner |-> "user", body |-> b]

\* The outer box of Box::new(Box::new(callback)): it holds the inner box, which
\* holds the closure; inner is the inner box's address.
PointerBox(inner) == [owner |-> "user", body |-> "box", inner |-> inner]

\* Box::new(x): one allocation; the new box's address is Len(heap) afterwards.
Box_new(st, x) ==
    IF Len(st.heap) >= MaxBoxes THEN [st EXCEPT !.overflow = TRUE]
    ELSE [st EXCEPT !.heap = Append(@, x)]

\* The closure reached from the box at addr: the box's own, or the one in the
\* inner box it holds.
ClosureAt(h, addr) == IF h[addr].body = "box" THEN h[h[addr].inner] ELSE h[addr]

\* callback_helpers::to_heap_ptr: Box::into_raw(Box::new(callback)).
to_heap_ptr(st, callback) == Box_new(st, callback)

\* Running a closure's body.
call(st, closure) ==
    CASE closure.body = "quit" -> [st EXCEPT !.quit = TRUE]
      [] closure.body = "nothing" -> st
      [] closure.body = "new" -> new(st, <<LetterA>>)
      [] closure.body = "destroy_all_windows" -> destroy_all_windows(st)

\* callback_helpers::from_void_ptr(data)(..): reinterpret the pointer as the
\* closure and call it.  The closure is not freed.
from_void_ptr(st, data) == call([st EXCEPT !.ran = Append(@, data)], st.heap[data])

\* A trampoline is an extern "C" function: a panic of the closure reaches the
\* foreign caller's frame there.
LeaveTrampoline(st) ==
    IF st.panic = "none" THEN st
    ELSE IF st.env.onPanic = "resume"
         THEN [st EXCEPT !.cbPanic = st.panic, !.panic = "none"]
         ELSE [st EXCEPT !.cbPanic = st.panic, !.aborted = TRUE]

\* ------------------------------------------------------ the registry
\* RefCell::borrow_mut: panics when the cell is already borrowed.
borrow_mut(st) ==
    IF st.borrowed THEN [st EXCEPT !.panic = "BorrowMutError"]
    ELSE [st EXCEPT !.borrowed = TRUE]

\* Dropping the RefMut.
release(st) == [st EXCEPT !.borrowed = FALSE]

\* WINDOWS.with(|windows| windows.borrow_mut().push(window.clone()))
RegistryPush(st, h) ==
    LET s1 == borrow_mut(st)
    IN IF s1.panic /= "none" THEN s1
       ELSE release([s1 EXCEPT !.WINDOWS = Append(@, h)])

\* --------------------------------------------------- trampolines
\* As closing_c_callback, but reporting 1: the toolkit then destroys the window.
closing_c_callback_ReturnsOne(st, window, data) ==
    [st |-> LeaveTrampoline(from_void_ptr(st, data)), ret |-> 1]

\* on_closing's c_callback: rebuild a handle from the raw pointer, call the
\* closure, report 0 to the toolkit.
closing_c_callback(st, window, data) ==
    [st |-> LeaveTrampoline(from_void_ptr(st, data)), ret |-> 0]

\* on_position_changed's c_callback.
position_c_callback(st, window, data) == LeaveTrampoline(from_void_ptr(st, data))

\* ------------------------------------------------ the native toolkit
uiNewWindow(st, t) ==
    IF st.created >= MaxWindows THEN [st EXCEPT !.overflow = TRUE]
    ELSE [st EXCEPT !.created = @ + 1, !.title[st.created + 1] = t,
                    !.native = Append(@, "uiNewWindow")]

uiWindowSetTitle(st, h, t) ==
    [st EXCEPT !.title[h] = t, !.native = Append(@, "uiWindowSetTitle")]

uiWindowOnClosing(st, h, data) ==
    [st EXCEPT !.onClosing[h] = data, !.registrations = @ + 1,
               !.native = Append(@, "uiWindowOnClosing")]

uiWindowOnPositionChanged(st, h, data) ==
    [st EXCEPT !.onPositionChanged[h] = data, !.registrations = @ + 1,
               !.native = Append(@, "uiWindowOnPositionChanged")]

uiWindowSetMargined(st, h, m) ==
    [st EXCEPT !.margined[h] = m, !.native = Append(@, "uiWindowSetMargined")]

\* The child control is the toolkit's state alone: the wrapper keeps none of it.
uiWindowSetChild(st, h, c) == [st EXCEPT !.native = Append(@, "uiWindowSetChild")]

uiMsgBox(st, h) == [st EXCEPT !.native = Append(@, "uiMsgBox")]

uiMsgBoxError(st, h) == [st EXCEPT !.native = Append(@, "uiMsgBoxError")]

\* uiControlDestroy on a window.  In a reentrant environment the toolkit first
\* calls the closing callback of the window, when the window is alive and has
\* one, as an event loop running inside the call would.
uiControlDestroy(st, h) ==
    LET s1 == IF st.env.reentrant /\ alive(st, h) /\ st.onClosing[h] /= 0
              THEN [closing_c_callback(st, h, st.onClosing[h]).st EXCEPT !.reentered = TRUE]
              ELSE st
    IN IF s1.panic /= "none" THEN s1
       ELSE [s1 EXCEPT !.destroyCount[h] = @ + 1, !.destroyed = Append(@, h),
                       !.native = Append(@, "uiControlDestroy")]

\* --------------------------------------------------------- Window
\* As on_closing, but freeing the box of the callback it replaces.
on_closing_FreesOld(st, h, callback) ==
    LET s1 == to_heap_ptr(st, callback)
        s2 == IF st.onClosing[h] /= 0 THEN [s1 EXCEPT !.freed = @ \cup {st.onClosing[h]}]
              ELSE s1
    IN uiWindowOnClosing(s2, h, Len(s2.heap))

on_closing(st, h, callback) ==
    LET s1 == to_heap_ptr(st, callback)
    IN uiWindowOnClosing(s1, h, Len(s1.heap))

on_position_changed(st, h, callback) ==
    LET s1 == to_heap_ptr(st, callback)
    IN uiWindowOnPositionChanged(s1, h, Len(s1.heap))

set_margined(st, h, m) == uiWindowSetMargined(st, h, m)

set_child(st, h, c) == uiWindowSetChild(st, h, c)

\* History: Window::new has returned the handle h.
Return(st, h) == [st EXCEPT !.returned[h] = TRUE]

\* As new, but without the default closing callback.
new_NoDefaultClosing(st, t) ==
    LET c_string == CString_new(as_bytes(t))
    IN IF ~c_string.ok THEN [st EXCEPT !.panic = "NulError"]
       ELSE LET s1 == uiNewWindow(st, c_string.bytes)
                window == s1.created
                s2 == RegistryPush(s1, window)
            IN IF s2.panic /= "none" THEN s2
               ELSE Return(set_margined(s2, window, TRUE), window)

\* As new, but creating and registering the window before converting the title.
new_CreateFirst(st, t) ==
    LET s1 == uiNewWindow(st, <<>>)
        window == s1.created
        s2 == RegistryPush(s1, window)
        c_string == CString_new(as_bytes(t))
    IN IF s2.panic /= "none" THEN s2
       ELSE IF ~c_string.ok THEN [s2 EXCEPT !.panic = "NulError"]
       ELSE Return(set_margined(on_closing(uiWindowSetTitle(s2, window, c_string.bytes),
                                           window, QuitClosure), window, TRUE), window)

new(st, t) ==
    LET c_string == CString_new(as_bytes(t))
    IN IF ~c_string.ok THEN [st EXCEPT !.panic = "NulError"]
       ELSE LET s1 == uiNewWindow(st, c_string.bytes)
                window == s1.created
                s2 == RegistryPush(s1, window)
            IN IF s2.panic /= "none" THEN s2
               ELSE Return(set_margined(on_closing(s2, window, QuitClosure), window, TRUE),
                           window)

set_title(st, h, t) ==
    LET c_string == CString_new(as_bytes(t))
    IN IF ~c_string.ok THEN [st EXCEPT !.panic = "NulError"]
       ELSE uiWindowSetTitle(st, h, c_string.bytes)

modal_msg(st, h, t, description) ==
    IF ~CString_new(as_bytes(t)).ok \/ ~CString_new(as_bytes(description)).ok
    THEN [st EXCEPT !.panic = "NulError"]
    ELSE uiMsgBox(st, h)

modal_err(st, h, t, description) ==
    IF ~CString_new(as_bytes(t)).ok \/ ~CString_new(as_bytes(description)).ok
    THEN [st EXCEPT !.panic = "NulError"]
    ELSE uiMsgBoxError(st, h)

destroy(st, h) == uiControlDestroy(st, h)

\* for window in windows.drain(..) { window.destroy(); }
RECURSIVE DestroyEach(_, _)
DestroyEach(st, ws) ==
    IF ws = <<>> \/ st.panic /= "none" THEN st
    ELSE DestroyEach(destroy(st, Head(ws)), Tail(ws))

\* The registry is borrowed for the whole loop; drain(..) empties it.  drainedUpTo
\* is history.
destroy_all_windows(st) ==
    LET s1 == borrow_mut(st)
    IN IF s1.panic /= "none" THEN s1
       ELSE LET drained == s1.WINDOWS
                s2 == [s1 EXCEPT !.WINDOWS = <<>>, !.drainedUpTo = s1.created]
                s3 == DestroyEach(s2, drained)
            IN IF s3.panic /= "none" THEN s3 ELSE release(s3)

\* ------------------------------------------------------ str_tools
\* Every "\r\n" becomes "\n".
RECURSIVE strip_dual_endings(_)
strip_dual_endings(s) ==
    IF s = <<>> THEN <<>>
    ELSE IF Len(s) >= 2 /\ s[1] = CR /\ s[2] = LF
         THEN <<LF>> \o strip_dual_endings(SubSeq(s, 3, Len(s)))
         ELSE <<s[1]>> \o strip_dual_endings(Tail(s))

\* Every "\n" that no "\r" precedes becomes "\r\n".
RECURSIVE InsertAfter(_, _)
InsertAfter(prev, s) ==
    IF s = <<>> THEN <<>>
    ELSE IF s[1] = LF /\ prev /= CR
         THEN <<CR, LF>> \o InsertAfter(LF, Tail(s))
         ELSE <<s[1]>> \o InsertAfter(s[1], Tail(s))

insert_dual_endings(s) == InsertAfter(NUL, s)

\* The text as the toolkit wants it: a C string, on Windows with "\r\n" line
\* endings.
to_toolkit_string(s) ==
    as_bytes(IF platform = "windows" THEN insert_dual_endings(s) ELSE s)

\* The toolkit's text as Rust wants it: decoded, and on Windows with the "\r\n"
\* line endings turned back into "\n".
from_toolkit_string(s) ==
    IF platform = "windows" THEN strip_dual_endings(to_string_lossy(s))
    ELSE to_string_lossy(s)

\* ------------------------------------------- the toolkit's text entries
uiEntryText(st) == st.text

uiEntrySetText(st, t) == [st EXCEPT !.text = t, !.native = Append(@, "uiEntrySetText")]

uiEntryOnChanged(st, data) ==
    [st EXCEPT !.onChanged = data, !.registrations = @ + 1,
               !.native = Append(@, "uiEntryOnChanged")]

uiMultilineEntryText(st) == st.text

uiMultilineEntrySetText(st, t) ==
    [st EXCEPT !.text = t, !.native = Append(@, "uiMultilineEntrySetText")]

\* The text is added at the end of the buffer; no changed callback is called.
uiMultilineEntryAppend(st, t) ==
    [st EXCEPT !.text = @ \o t, !.native = Append(@, "uiMultilineEntryAppend")]

uiMultilineEntryOnChanged(st, data) ==
    [st EXCEPT !.onChanged = data, !.registrations = @ + 1,
               !.native = Append(@, "uiMultilineEntryOnChanged")]

\* ------------------------------------------------------ text entries
\* Calling the closure behind data with a String, and leaving the trampoline.
CallWithString(st, data, string) ==
    LeaveTrampoline(from_void_ptr([st EXCEPT !.arg = string], data))

MultilineEntry_append(st, v) == uiMultilineEntryAppend(st, to_toolkit_string(v))

Entry_value(st) == from_toolkit_string(uiEntryText(st))

Entry_set_value(st, v) == uiEntrySetText(st, to_toolkit_string(v))

Entry_c_callback(st, data) == CallWithString(st, data, to_string_lossy(uiEntryText(st)))

Entry_on_changed(st, callback) ==
    LET s1 == to_heap_ptr(st, callback)
    IN uiEntryOnChanged(s1, Len(s1.heap))

PasswordEntry_value(st) == to_string_lossy(uiEntryText(st))

PasswordEntry_set_value(st, v) ==
    LET cstring == CString_new(as_bytes(v))
    IN IF ~cstring.ok THEN [st EXCEPT !.panic = "NulError"]
       ELSE uiEntrySetText(st, cstring.bytes)

\* mem::transmute::<*mut c_void, &mut Box<dyn FnMut(String)>>(data)(string): data
\* is the outer box, the closure is called through the inner box it holds.
CallThroughBox(st, data, string) ==
    LeaveTrampoline(call([st EXCEPT !.arg = string, !.ran = Append(@, data)],
                         st.heap[st.heap[data].inner]))

PasswordEntry_c_callback(st, data) ==
    CallThroughBox(st, data, from_toolkit_string(uiEntryText(st)))

\* Box::new(Box::new(callback)): two boxes, the inner one holding the closure and
\* the outer one holding the inner; the outer's address is handed over as the
\* context pointer, then mem::forget leaks both.
PasswordEntry_on_changed(st, callback) ==
    LET s1 == Box_new(st, callback)
        s2 == Box_new(s1, PointerBox(Len(s1.heap)))
    IN uiEntryOnChanged(s2, Len(s2.heap))

SearchEntry_value(st) == from_toolkit_string(uiEntryText(st))

SearchEntry_set_value(st, v) == uiEntrySetText(st, to_toolkit_string(v))

SearchEntry_c_callback(st, data) ==
    CallWithString(st, data, to_string_lossy(uiEntryText(st)))

SearchEntry_on_changed(st, callback) ==
    LET s1 == to_heap_ptr(st, callback)
    IN uiEntryOnChanged(s1, Len(s1.heap))

MultilineEntry_value(st) == from_toolkit_string(uiMultilineEntryText(st))

MultilineEntry_set_value(st, v) == uiMultilineEntrySetText(st, to_toolkit_string(v))

MultilineEntry_c_callback(st, data) ==
    CallWithString(st, data, to_string_lossy(uiMultilineEntryText(st)))

MultilineEntry_on_changed(st, callback) ==
    LET s1 == to_heap_ptr(st, callback)
    IN uiMultilineEntryOnChanged(s1, Len(s1.heap))

\* The TextEntry trait: each call goes to the implementation of the entry's kind.
value(k, st) ==
    CASE k = "Entry" -> Entry_value(st)
      [] k = "PasswordEntry" -> PasswordEntry_value(st)
      [] k = "SearchEntry" -> SearchEntry_value(st)
      [] k = "MultilineEntry" -> MultilineEntry_value(st)

set_value(k, st, v) ==
    CASE k = "Entry" -> Entry_set_value(st, v)
      [] k = "PasswordEntry" -> PasswordEntry_set_value(st, v)
      [] k = "SearchEntry" -> SearchEntry_set_value(st, v)
      [] k = "MultilineEntry" -> MultilineEntry_set_value(st, v)

on_changed(k, st, callback) ==
    CASE k = "Entry" -> Entry_on_changed(st, callback)
      [] k = "PasswordEntry" -> PasswordEntry_on_changed(st, callback)
      [] k = "SearchEntry" -> SearchEntry_on_changed(st, callback)
      [] k = "MultilineEntry" -> MultilineEntry_on_changed(st, callback)

\* The trampoline each kind's on_changed registered.
changed_c_callback(k, st, data) ==
    CASE k = "Entry" -> Entry_c_callback(st, data)
      [] k = "PasswordEntry" -> PasswordEntry_c_callback(st, data)
      [] k = "SearchEntry" -> SearchEntry_c_callback(st, data)
      [] k = "MultilineEntry" -> MultilineEntry_c_callback(st, data)

\* --------------------------------------------------------- dialogs
\* uiOpenFile, uiSaveFile, uiOpenFolder: a null pointer when the user cancels,
\* the address of a new native string otherwise.
uiDialog(st, name, answer) ==
    IF answer.null THEN [st |-> [st EXCEPT !.native = Append(@, name)], ptr |-> 0]
    ELSE [st |-> [st EXCEPT !.native = Append(@, name),
                            !.cstrings = Append(@, [bytes |-> answer.bytes, frees |-> 0])],
          ptr |-> Len(st.cstrings) + 1]

\* uiFreeText: the string's memory goes back to the toolkit's allocator.
uiFreeText(st, ptr) ==
    [st EXCEPT !.cstrings[ptr] = [bytes |-> <<>>, frees |-> @.frees + 1],
               !.native = Append(@, "uiFreeText")]

\* CStr::from_ptr(ptr): the bytes at ptr; reading a freed string is a use after free.
CStr_from_ptr(st, ptr) ==
    [st |-> [st EXCEPT !.uaf = @ \/ st.cstrings[ptr].frees > 0],
     bytes |-> st.cstrings[ptr].bytes]

\* As PathFromPtr, but freeing the native string before copying it.
PathFromPtr_FreeFirst(st, ptr) ==
    IF ptr = 0 THEN [st |-> st, ret |-> None]
    ELSE LET s1 == uiFreeText(st, ptr)
             c == CStr_from_ptr(s1, ptr)
         IN [st |-> c.st, ret |-> Some(to_string_lossy(c.bytes))]

\* The body open_file, save_file and open_folder share, after the dialog returned ptr.
PathFromPtr(st, ptr) ==
    IF ptr = 0 THEN [st |-> st, ret |-> None]
    ELSE LET c == CStr_from_ptr(st, ptr)
             path_string == to_string_lossy(c.bytes)
         IN [st |-> uiFreeText(c.st, ptr), ret |-> Some(path_string)]

open_file(st, h, answer) ==
    LET r == uiDialog(st, "uiOpenFile", answer) IN PathFromPtr(r.st, r.ptr)

save_file(st, h, answer) ==
    LET r == uiDialog(st, "uiSaveFile", answer) IN PathFromPtr(r.st, r.ptr)

open_folder(st, h, answer) ==
    LET r == uiDialog(st, "uiOpenFolder", answer) IN PathFromPtr(r.st, r.ptr)

\* ------------------------------------------------------- actions
\* Commit the state an operation ends in.  Nothing runs in a process that has
\* ended, and an operation stays within the bounds on windows and boxes.
Commit(st) ==
    /\ ~aborted
    /\ ~st.overflow
    /\ WINDOWS' = st.WINDOWS
    /\ borrowed' = st.borrowed
    /\ created' = st.created
    /\ destroyCount' = st.destroyCount
    /\ title' = st.title
    /\ margined' = st.margined
    /\ onClosing' = st.onClosing
    /\ onPositionChanged' = st.onPositionChanged
    /\ onChanged' = st.onChanged
    /\ heap' = st.heap
    /\ freed' = st.freed
    /\ aborted' = st.aborted
    /\ text' = st.text
    /\ cstrings' = st.cstrings
    /\ drainedUpTo' = st.drainedUpTo
    /\ returned' = st.returned
    /\ registrations' = st.registrations

Result(op, h, st, nul) ==
    [NoOut EXCEPT !.op = op, !.win = h, !.panic = st.panic, !.cbPanic = st.cbPanic,
                  !.nul = nul, !.native = st.native, !.ran = st.ran, !.quit = st.quit,
                  !.destroyed = st.destroyed, !.reentered = st.reentered,
                  !.arg = st.arg, !.uaf = st.uaf]

\* The caller uses the handles Window::new returned to it, and keeps destroy's
\* contract: no use of a handle after its destroy.
holds(h) == returned[h] /\ alive(W, h)

New(t) ==
    /\ LET st == new(W, t)
       IN Commit(st) /\ out' = Result("new", st.created, st, HasNul(t))
    /\ UNCHANGED <<userClosing, entryVars>>

SetTitle(h, t) ==
    /\ holds(h)
    /\ LET st == set_title(W, h, t)
       IN Commit(st) /\ out' = Result("set_title", h, st, HasNul(t))
    /\ UNCHANGED <<userClosing, entryVars>>

ModalMsg(h, t, d) ==
    /\ holds(h)
    /\ LET st == modal_msg(W, h, t, d)
       IN Commit(st) /\ out' = Result("modal_msg", h, st, HasNul(t) \/ HasNul(d))
    /\ UNCHANGED <<userClosing, entryVars>>

ModalErr(h, t, d) ==
    /\ holds(h)
    /\ LET st == modal_err(W, h, t, d)
       IN Commit(st) /\ out' = Result("modal_err", h, st, HasNul(t) \/ HasNul(d))
    /\ UNCHANGED <<userClosing, entryVars>>

SetChild(h, c) ==
    /\ holds(h)
    /\ LET st == set_child(W, h, c)
       IN Commit(st) /\ out' = Result("set_child", h, st, FALSE)
    /\ UNCHANGED <<userClosing, entryVars>>

SetMargined(h, m) ==
    /\ holds(h)
    /\ LET st == set_margined(W, h, m)
       IN Commit(st) /\ out' = Result("set_margined", h, st, FALSE)
    /\ UNCHANGED <<userClosing, entryVars>>

OnClosing(h, b) ==
    /\ holds(h)
    /\ LET st == on_closing(W, h, UserClosure(b))
       IN /\ Commit(st)
          /\ out' = Result("on_closing", h, st, FALSE)
          /\ userClosing' = [userClosing EXCEPT ![h] = Len(st.heap)]
    /\ UNCHANGED entryVars

OnPositionChanged(h, b) ==
    /\ holds(h)
    /\ LET st == on_position_changed(W, h, UserClosure(b))
       IN Commit(st) /\ out' = Result("on_position_changed", h, st, FALSE)
    /\ UNCHANGED <<userClosing, entryVars>>

Destroy(h, e) ==
    /\ holds(h)
    /\ LET st == destroy(Under(e), h)
       IN Commit(st) /\ out' = Result("destroy", h, st, FALSE)
    /\ UNCHANGED <<userClosing, entryVars>>

DestroyAllWindows(e) ==
    /\ LET st == destroy_all_windows(Under(e))
       IN Commit(st) /\ out' = Result("destroy_all_windows", 0, st, FALSE)
    /\ UNCHANGED <<userClosing, entryVars>>

\* The toolkit's event loop reports that the user closes window h: it calls the
\* registered trampoline and destroys the window when the trampoline returns
\* non-zero.  With no callback registered nothing runs and the window stays.
CloseEvent(h, e) ==
    /\ alive(W, h)
    /\ LET r == IF onClosing[h] /= 0 THEN closing_c_callback(Under(e), h, onClosing[h])
                ELSE [st |-> Under(e), ret |-> 0]
           st == IF r.st.panic = "none" /\ r.ret /= 0
                 THEN uiControlDestroy([r.st EXCEPT !.env = Quiet], h)
                 ELSE r.st
       IN Commit(st) /\ out' = [Result("close", h, st, FALSE) EXCEPT !.ret = r.ret]
    /\ UNCHANGED <<userClosing, entryVars>>

PositionEvent(h, e) ==
    /\ alive(W, h)
    /\ LET st == IF onPositionChanged[h] /= 0
                 THEN position_c_callback(Under(e), h, onPositionChanged[h])
                 ELSE Under(e)
       IN Commit(st) /\ out' = Result("position", h, st, FALSE)
    /\ UNCHANGED <<userClosing, entryVars>>

\* ---- the text entry
SetValue(v) ==
    /\ LET st == set_value(kind, W, v)
       IN Commit(st) /\ out' = [Result("set_value", 0, st, FALSE) EXCEPT !.arg = v]
    /\ UNCHANGED <<userClosing, entryVars>>

Value ==
    /\ Commit(W)
    /\ out' = [Result("value", 0, W, FALSE) EXCEPT !.arg = value(kind, W)]
    /\ UNCHANGED <<userClosing, entryVars>>

\* MultilineEntry::append; the buffer's length is kept within MaxTextLen + 1 bytes.
AppendText(v) ==
    /\ kind = "MultilineEntry"
    /\ LET st == MultilineEntry_append(W, v)
       IN /\ Len(st.text) <= MaxTextLen + 1
          /\ Commit(st)
          /\ out' = [Result("append", 0, st, FALSE) EXCEPT !.arg = v]
    /\ UNCHANGED <<userClosing, entryVars>>

OnChanged(b) ==
    /\ LET st == on_changed(kind, W, UserClosure(b))
       IN Commit(st) /\ out' = Result("on_changed", 0, st, FALSE)
    /\ UNCHANGED <<userClosing, entryVars>>

\* The toolkit reports a change of the entry's text, which is t now: it calls the
\* registered trampoline, when there is one.
Changed(t, e) ==
    /\ LET s1 == [Under(e) EXCEPT !.text = t]
           st == IF onChanged /= 0 THEN changed_c_callback(kind, s1, onChanged) ELSE s1
       IN Commit(st) /\ out' = Result("changed", 0, st, FALSE)
    /\ UNCHANGED <<userClosing, entryVars>>

UserEdit(t) == Changed(t, Quiet)

ChangedEvent(e) == onChanged /= 0 /\ Changed(text, e)

\* ---- the file dialogs
Dialog(op, h, r, answer) ==
    /\ Commit(r.st)
    /\ out' = [Result(op, h, r.st, FALSE) EXCEPT !.given = answer, !.result = r.ret,
                                                 !.ptr = IF answer.null THEN 0
                                                         ELSE Len(cstrings) + 1]
    /\ UNCHANGED <<userClosing, entryVars>>

OpenFile(h, answer) ==
    /\ holds(h)
    /\ Len(cstrings) < MaxDialogs
    /\ Dialog("open_file", h, open_file(W, h, answer), answer)

SaveFile(h, answer) ==
    /\ holds(h)
    /\ Len(cstrings) < MaxDialogs
    /\ Dialog("save_file", h, save_file(W, h, answer), answer)

OpenFolder(h, answer) ==
    /\ holds(h)
    /\ Len(cstrings) < MaxDialogs
    /\ Dialog("open_folder", h, open_folder(W, h, answer), answer)

InitWindows ==
    /\ WINDOWS = <<>>
    /\ borrowed = FALSE
    /\ created = 0
    /\ destroyCount = [h \in Handles |-> 0]
    /\ title = [h \in Handles |-> <<>>]
    /\ margined = [h \in Handles |-> FALSE]
    /\ onClosing = [h \in Handles |-> 0]
    /\ onPositionChanged = [h \in Handles |-> 0]
    /\ heap = <<>>
    /\ freed = {}
    /\ aborted = FALSE
    /\ drainedUpTo = 0
    /\ returned = [h \in Handles |-> FALSE]
    /\ userClosing = [h \in Handles |-> 0]
    /\ registrations = 0
    /\ onChanged = 0
    /\ text = <<>>
    /\ cstrings = <<>>
    /\ out = NoOut

\* The windows, their callbacks and their destruction; the entry plays no part.
Init ==
    /\ InitWindows
    /\ kind = "Entry"
    /\ platform = "unix"

Next ==
    \/ \E t \in {<<LetterA>>} : New(t)
    \/ \E h \in Handles, b \in UserBodies : OnClosing(h, b)
    \/ \E h \in Handles, b \in UserBodies : OnPositionChanged(h, b)
    \/ \E h \in Handles, e \in Environments : Destroy(h, e)
    \/ \E e \in Environments : DestroyAllWindows(e)
    \/ \E h \in Handles, e \in Environments : CloseEvent(h, e)
    \/ \E h \in Handles, e \in Environments : PositionEvent(h, e)

Spec == Init /\ [][Next]_vars

\* The windows' titles, margins, children and message boxes.
NextTitles ==
    \/ \E t \in Titles : New(t)
    \/ \E h \in Handles, t \in Titles : SetTitle(h, t)
    \/ \E h \in Handles, t \in Titles, d \in Descriptions : ModalMsg(h, t, d)
    \/ \E h \in Handles, t \in Titles, d \in Descriptions : ModalErr(h, t, d)
    \/ \E h \in Handles, c \in EntryKinds : SetChild(h, c)
    \/ \E h \in Handles, m \in BOOLEAN : SetMargined(h, m)
    \/ \E h \in Handles, e \in Environments : Destroy(h, e)
    \/ \E e \in Environments : DestroyAllWindows(e)
    \/ \E h \in Handles, e \in Environments : CloseEvent(h, e)

SpecTitles == Init /\ [][NextTitles]_vars

\* The callbacks of the windows and of a text entry of each kind: registering
\* them, the toolkit calling them, and the destruction of the windows.
InitCallbacks ==
    /\ InitWindows
    /\ kind \in EntryKinds
    /\ platform = "unix"

NextCallbacks ==
    \/ \E t \in {<<LetterA>>} : New(t)
    \/ \E h \in Handles, b \in UserBodies : OnClosing(h, b)
    \/ \E h \in Handles, b \in {"nothing"} : OnPositionChanged(h, b)
    \/ \E b \in {"nothing", "destroy_all_windows"} : OnChanged(b)
    \/ \E h \in Handles, e \in Environments : Destroy(h, e)
    \/ \E e \in Environments : DestroyAllWindows(e)
    \/ \E h \in Handles, e \in Environments : CloseEvent(h, e)
    \/ \E h \in Handles, e \in Environments : PositionEvent(h, e)
    \/ \E e \in Environments : ChangedEvent(e)

SpecCallbacks == InitCallbacks /\ [][NextCallbacks]_vars

\* The text entry alone, of each kind, on each platform.
InitEntry ==
    /\ InitWindows
    /\ kind \in EntryKinds
    /\ platform \in {"windows", "unix"}

NextEntry ==
    \/ \E v \in Inputs : SetValue(v)
    \/ Value
    \/ \E v \in Inputs : AppendText(v)
    \/ \E b \in {"nothing"} : OnChanged(b)
    \/ \E t \in Texts : UserEdit(t)

SpecEntry == InitEntry /\ [][NextEntry]_vars

\* The file dialogs of the windows.
NextDialog ==
    \/ \E t \in Titles : New(t)
    \/ \E h \in Handles, a \in DialogAnswers : OpenFile(h, a)
    \/ \E h \in Handles, a \in DialogAnswers : SaveFile(h, a)
    \/ \E h \in Handles, a \in DialogAnswers : OpenFolder(h, a)

SpecDialog == Init /\ [][NextDialog]_vars

\* ================================================================ claims
DialogOps == {"open_file", "save_file", "open_folder"}
DialogNative(op) ==
    CASE op = "open_file" -> "uiOpenFile"
      [] op = "save_file" -> "uiSaveFile"
      [] op = "open_folder" -> "uiOpenFolder"

\* Whether a closure that calls destroy_all_windows ran in the last operation.
RanDestroyAll ==
    \E i \in 1..Len(out.ran) : ClosureAt(heap, out.ran[i]).body = "destroy_all_windows"

\* C1: no native window is destroyed more than once, whatever sequence of
\* Window::new, destroy and destroy_all_windows calls is made; a window destroyed
\* with destroy() is not handed to the native destroy function again by a later
\* destroy_all_windows().
C1_NoWindowDestroyedTwice == \A h \in Handles : destroyCount[h] <= 1

\* C2: at every point the registry holds exactly one entry, in creation order,
\* for each window created by Window::new since the registry was last drained by
\* destroy_all_windows.
C2_RegistryTracksCreated ==
    WINDOWS = [i \in 1..(created - drainedUpTo) |-> drainedUpTo + i]

\* C3, as stated: closing a window on which on_closing was never called runs the
\* closure Window::new registered, which quits the application; once the user has
\* called on_closing, a close runs only the closure registered last and the
\* application does not quit.
C3_CloseRunsOnlyLatestAndNoQuit ==
    (out.op = "close" /\ returned[out.win]) =>
        IF userClosing[out.win] = 0
        THEN /\ Len(out.ran) = 1
             /\ heap[out.ran[1]] = QuitClosure
             /\ out.quit
        ELSE /\ out.ran = <<userClosing[out.win]>>
             /\ ~out.quit

\* C3, amended: closing a window Window::new returned, on which on_closing was
\* never called, runs the closure Window::new registered, which quits the
\* application; once the user has called on_closing, the close trampoline calls
\* the closure registered last, and another callback runs or the application
\* quits in that event only when that closure brings it about: it quits itself,
\* or it calls destroy_all_windows and the toolkit calls closing callbacks from
\* inside the destroy.  A window with no callback registered runs nothing.
C3_CloseCallsLatestCallback ==
    out.op = "close" =>
        LET h == out.win
            latest == userClosing[h]
        IN /\ (returned[h] /\ latest = 0) =>
                 /\ Len(out.ran) = 1
                 /\ heap[out.ran[1]] = QuitClosure
                 /\ out.quit
           /\ latest /= 0 =>
                 /\ out.ran /= <<>>
                 /\ out.ran[1] = latest
                 /\ heap[latest].owner = "user"
                 /\ Len(out.ran) > 1 => heap[latest].body = "destroy_all_windows"
                 /\ out.quit => (heap[latest].body = "quit" \/ Len(out.ran) > 1)
           /\ (~returned[h] /\ latest = 0) => (out.ran = <<>> /\ ~out.quit)

C3_Witness ==
    /\ out.op = "close"
    /\ userClosing[out.win] /= 0
    /\ \E first \in 1..Len(heap) :
          /\ first < userClosing[out.win]
          /\ heap[first].owner = "user"
    /\ heap[userClosing[out.win]].body = "nothing"
    /\ out.ran = <<userClosing[out.win]>>
    /\ ~out.quit

\* C4: open_file, save_file and open_folder return None exactly when the dialog
\* returned a null pointer and Some(the decoded native string) otherwise; the
\* native string is freed exactly once, after it was copied, and nothing is freed
\* when the pointer is null.
C4_DialogResult ==
    /\ \A p \in 1..Len(cstrings) : cstrings[p].frees = 1
    /\ out.op \in DialogOps =>
          /\ out.result = None <=> out.given.null
          /\ out.given.null => out.native = <<DialogNative(out.op)>>
          /\ ~out.given.null =>
                /\ out.result = Some(to_string_lossy(out.given.bytes))
                /\ ~out.uaf
                /\ cstrings[out.ptr].frees = 1
                /\ out.native = <<DialogNative(out.op), "uiFreeText">>

C4_Witness ==
    /\ out.op = "open_folder"
    /\ ~out.given.null
    /\ out.given.bytes = <<Slash>> \o SubSeq(encode_utf8(Euro), 1, 2) \o <<LetterA>>
    /\ out.result = Some(<<Slash, ReplacementChar, LetterA>>)
    /\ cstrings[out.ptr].frees = 1

\* C5: for each of the four kinds and every string s with "\n" line endings,
\* set_value(s) hands the toolkit s in the platform's form ("\r\n" added on
\* Windows) and value() then returns s.
C5_RoundTripEveryKind ==
    (out.op = "set_value" /\ CR \notin Range(out.arg)) =>
        /\ text = as_bytes(IF platform = "windows" THEN insert_dual_endings(out.arg)
                           ELSE out.arg)
        /\ value(kind, W) = out.arg

\* C6, as stated: no closure box is ever freed and each registration adds one
\* box: the boxes are as many as the registrations made.
C6_OneBoxPerRegistration ==
    /\ freed = {}
    /\ Len(heap) = registrations

\* C6, amended: no closure box is ever freed: each registration adds one box, or
\* two for PasswordEntry::on_changed (the closure's box and the box that holds
\* it), none is removed, and every context pointer the toolkit holds and every
\* pointer a trampoline reinterprets is the address of a live box from which a
\* live closure is reached.
C6_BoxesNeverFreed ==
    /\ [](/\ freed = {}
          /\ \A h \in Handles : /\ onClosing[h] \in 0..Len(heap)
                                /\ onPositionChanged[h] \in 0..Len(heap)
          /\ onChanged \in 0..Len(heap)
          /\ \A a \in 1..Len(heap) :
                heap[a].body = "box" => /\ heap[a].inner \in (1..Len(heap)) \ freed
                                        /\ heap[heap[a].inner].body /= "box"
          /\ \A i \in 1..Len(out.ran) : out.ran[i] \in (1..Len(heap)) \ freed)
    /\ [][/\ Len(heap') >= Len(heap)
          /\ SubSeq(heap', 1, Len(heap)) = heap
          /\ Len(heap') - Len(heap) =
                IF out'.op = "on_changed" /\ kind = "PasswordEntry" THEN 2
                ELSE registrations' - registrations
          /\ out'.op = "on_changed" => registrations' = registrations + 1]_vars

C6_Witness ==
    /\ \E h \in Handles : /\ destroyCount[h] >= 1
                          /\ onClosing[h] \in (1..Len(heap)) \ freed
    /\ kind = "PasswordEntry"
    /\ onChanged /= 0
    /\ heap[onChanged] = PointerBox(onChanged - 1)
    /\ out.op = "changed"
    /\ out.ran = <<onChanged>>

\* C7: Window::new, set_title, modal_msg and modal_err panic exactly when a string
\* they are given holds a NUL, and then before any native call: no window is
\* created, no title changes, no dialog is shown, the registry is unchanged.
C7_NulPanicsBeforeNativeCall ==
    /\ [](out.op \in {"new", "set_title", "modal_msg", "modal_err"} =>
             /\ out.panic \in {"none", "NulError"}
             /\ out.nul <=> out.panic = "NulError"
             /\ out.panic = "NulError" => out.native = <<>>
             /\ out.panic = "none" => out.native /= <<>>)
    /\ [][out'.panic = "NulError" =>
             UNCHANGED <<WINDOWS, created, title, margined, destroyCount, onClosing,
                         onPositionChanged, heap, freed>>]_vars

C7_Witness ==
    /\ out.op = "new"
    /\ out.panic = "NulError"
    /\ out.native = <<>>
    /\ Len(WINDOWS) = 1
    /\ created = 1

\* C8: for every kind, the string an on_changed callback is given is what value()
\* returns on the entry at that moment.
C8_CallbackGetsValue ==
    (out.op = "changed" /\ out.ran /= <<>>) => out.arg = value(kind, W)

\* C9, as stated: after a close event, whatever the user's callback does, the
\* window is still alive and still in the registry.
C9_WindowSurvivesClose ==
    (out.op = "close" /\ returned[out.win]) =>
        (alive(W, out.win) /\ out.win \in Range(WINDOWS))

\* C9, amended: the closing trampoline reports 0 whatever the callback does, so
\* the toolkit destroys no window on a close event; a native destroy happens only
\* in destroy() or destroy_all_windows(), and a close event in which no callback
\* calls them leaves every window as alive as before and every registry entry in
\* place.
C9_CloseNeverDestroys ==
    /\ [](out.op = "close" => out.ret = 0)
    /\ [][/\ (out'.op = "close" /\ ~RanDestroyAll') =>
                /\ destroyCount' = destroyCount
                /\ Len(WINDOWS') >= Len(WINDOWS)
                /\ SubSeq(WINDOWS', 1, Len(WINDOWS)) = WINDOWS
          /\ destroyCount' /= destroyCount =>
                \/ out'.op \in {"destroy", "destroy_all_windows"}
                \/ RanDestroyAll']_vars

C9_Witness ==
    /\ out.op = "close"
    /\ userClosing[out.win] /= 0
    /\ heap[userClosing[out.win]].body = "new"
    /\ out.ran = <<userClosing[out.win]>>
    /\ out.ret = 0
    /\ alive(W, out.win)
    /\ WINDOWS = <<1, 2>>

\* C10: no operation finds the registry already mutably borrowed: no borrow of it
\* fails, in the operation or in a callback the toolkit runs while
\* destroy_all_windows holds the borrow.
C10_NoNestedBorrow ==
    /\ out.panic /= "BorrowMutError"
    /\ out.cbPanic /= "BorrowMutError"

====
